---------------------------- MODULE Spec2Model ----------------------------
(* A model of llama_docs_bot/indexing.py: the loader of the per-category   *)
(* markdown documents (load_markdown_docs, load_docs) and the construction *)
(* of the sub-question query engine (create_query_engine), which loads the *)
(* nine persisted indexes inside one try block and rebuilds and persists   *)
(* all nine when any load raises.                                          *)
EXTENDS Integers, Sequences, FiniteSets, TLC

(***************************************************************************)
(* Bounds of the model.                                                    *)
(***************************************************************************)
MaxRuns == 3      \* calls of create_query_engine in one behaviour
MaxTamper == 1    \* times directories are removed or damaged between calls
MaxRev == 2       \* revisions of the documentation tree
MaxDocs == 2      \* documents the reader emits for one directory

(***************************************************************************)
(* The nine categories, named by the prefix of their local variables       *)
(* (<prefix>_docs, <prefix>_index, <prefix>_tool), in declaration order.   *)
(***************************************************************************)
Categories ==
  << "getting_started", "community", "data", "agent", "model",
     "query", "supporting", "tutorials", "contributing" >>

N == Len(Categories)

Cat == { Categories[n] : n \in 1..N }

\* load_docs: the directory each <prefix>_docs is loaded from.
SourcePath ==
  [ getting_started |-> "../docs/getting_started",
    community       |-> "../docs/community",
    data            |-> "../docs/core_modules/data_modules",
    agent           |-> "../docs/core_modules/agent_modules",
    model           |-> "../docs/core_modules/model_modules",
    query           |-> "../docs/core_modules/query_modules",
    supporting      |-> "../docs/core_modules/supporting_modules",
    tutorials       |-> "../docs/end_to_end_tutorials",
    contributing    |-> "../docs/development" ]

\* The try block: the persist_dir each <prefix>_index is loaded from.
LoadDir ==
  [ getting_started |-> "./getting_started_index",
    community       |-> "./community_index",
    data            |-> "./data_index",
    agent           |-> "./agent_index",
    model           |-> "./model_index",
    query           |-> "./query_index",
    supporting      |-> "./supporting_index",
    tutorials       |-> "./tutorials_index",
    contributing    |-> "./contributing_index" ]

\* A slip of the except block: the agent index built from model_docs.
BuildDocsSlip ==
  [ getting_started |-> "getting_started",
    community       |-> "community",
    data            |-> "data",
    agent           |-> "model",
    model           |-> "model",
    query           |-> "query",
    supporting      |-> "supporting",
    tutorials       |-> "tutorials",
    contributing    |-> "contributing" ]

\* The except block: the <x>_docs each <prefix>_index is built from.
BuildDocs ==
  [ getting_started |-> "getting_started",
    community       |-> "community",
    data            |-> "data",
    agent           |-> "agent",
    model           |-> "model",
    query           |-> "query",
    supporting      |-> "supporting",
    tutorials       |-> "tutorials",
    contributing    |-> "contributing" ]

\* A slip of the except block: the data index written over the community one.
PersistDirTypo ==
  [ getting_started |-> "./getting_started_index",
    community       |-> "./community_index",
    data            |-> "./community_index",
    agent           |-> "./agent_index",
    model           |-> "./model_index",
    query           |-> "./query_index",
    supporting      |-> "./supporting_index",
    tutorials       |-> "./tutorials_index",
    contributing    |-> "./contributing_index" ]

\* The except block: the persist_dir each <prefix>_index is persisted to.
PersistDir ==
  [ getting_started |-> "./getting_started_index",
    community       |-> "./community_index",
    data            |-> "./data_index",
    agent           |-> "./agent_index",
    model           |-> "./model_index",
    query           |-> "./query_index",
    supporting      |-> "./supporting_index",
    tutorials       |-> "./tutorials_index",
    contributing    |-> "./contributing_index" ]

\* The <x>_index each <prefix>_tool takes its query engine from.
ToolIndex ==
  [ getting_started |-> "getting_started",
    community       |-> "community",
    data            |-> "data",
    agent           |-> "agent",
    model           |-> "model",
    query           |-> "query",
    supporting      |-> "supporting",
    tutorials       |-> "tutorials",
    contributing    |-> "contributing" ]

\* The name= argument of each <prefix>_tool.
ToolName ==
  [ getting_started |-> "Getting Started",
    community       |-> "Community",
    data            |-> "Data Modules",
    agent           |-> "Agent Modules",
    model           |-> "Model Modules",
    query           |-> "Query Modules",
    supporting      |-> "Supporting Modules",
    tutorials       |-> "Tutorials",
    contributing    |-> "Contributing" ]

\* A slip of the tool list: two neighbouring tools exchanged.
QueryEngineToolsSwapped ==
  << "getting_started", "community", "agent", "data", "model",
     "query", "supporting", "tutorials", "contributing" >>

\* query_engine_tools=[...]: the <prefix>_tool variables in list order.
QueryEngineTools ==
  << "getting_started", "community", "data", "agent", "model",
     "query", "supporting", "tutorials", "contributing" >>

Dirs == { LoadDir[c] : c \in Cat } \cup { PersistDir[c] : c \in Cat }

(***************************************************************************)
(* Values.                                                                 *)
(***************************************************************************)
\* doc.excluded_llm_metadata_keys as load_markdown_docs sets it.
ExcludedKeys == << "File Name", "Content Type", "Header Path" >>

\* A persistence directory that does not exist / holds no readable snapshot.
Absent  == [ kind |-> "absent",  path |-> "", rev |-> 0, size |-> 0 ]
Corrupt == [ kind |-> "corrupt", path |-> "", rev |-> 0, size |-> 0 ]

\* No index / no documents / no exception / no engine yet.
NoIndex  == [ origin |-> "unset", path |-> "", rev |-> 0, size |-> 0 ]
NoDocs   == [ path |-> "", rev |-> 0, documents |-> << >> ]
NoError  == [ type |-> "none", op |-> "none" ]
NoDisk   == [ d \in Dirs |-> Absent ]
NoEngine == [ tools |-> << >>, streaming |-> FALSE ]
NoFailure == [ op |-> "none", cat |-> "none", exc |-> NoError ]

VARIABLES
  disk,       \* persistence directory -> Absent, Corrupt or a snapshot
  disk0,      \* history: disk as it was when this call started
  rev,        \* the revision of the documentation tree under ../docs
  pc,         \* where create_query_engine stands
  cur,        \* the category the current phase works on (a position)
  docs,       \* <prefix>_docs
  index,      \* <prefix>_index
  engine,     \* the value create_query_engine returned
  raised,     \* the exception that left create_query_engine
  failure,    \* history: the call that raised it, its category, what it threw
  loadOk,     \* history: categories whose load_index_from_storage returned
  loadFailed, \* history: categories whose load_index_from_storage raised
  built,      \* history: categories built by from_documents in this call
  written,    \* history: categories persisted in this call
  fresh,      \* history: a call has returned and no directory changed since
  reuse,      \* history: the value of fresh when this call started
  runs,       \* calls so far
  tampers,    \* directories removed or corrupted so far
  filepath,   \* load_markdown_docs: its argument
  emitted,    \* load_markdown_docs: what loader.load_data() gives
  documents,  \* load_markdown_docs: what it returned
  lpc         \* load_markdown_docs: called / returned

vars == << disk, disk0, rev, pc, cur, docs, index, engine, raised, failure, loadOk,
           loadFailed, built, written, fresh, reuse, runs, tampers,
           filepath, emitted, documents, lpc >>

mainVars == << disk, disk0, rev, pc, cur, docs, index, engine, raised, failure,
               loadOk, loadFailed, built, written, fresh, reuse, runs,
               tampers >>

loaderVars == << filepath, emitted, documents, lpc >>


(***************************************************************************)
(* The external collaborators, by their contract.                          *)
(***************************************************************************)
\* The exceptions a library call can raise: plain library errors that carry
\* the call that failed and nothing about the category.
Thrown(op) ==
  CASE op = "load_data"      -> { [ type |-> "ValueError", op |-> op ] }
    [] op = "from_documents" -> { [ type |-> "ValueError", op |-> op ],
                                  [ type |-> "RuntimeError", op |-> op ] }
    [] op = "persist"        -> { [ type |-> "OSError", op |-> op ] }

\* The exclusion lists a document can come out of the reader with.
RawExcluded == { << >>, << "File Name" >>, << "Header Path", "Links" >> }

RawDocument(fp, ex) == [ file |-> fp, excluded_llm_metadata_keys |-> ex ]

\* loader.load_data() on the tree at revision r: r - 1 documents per directory
\* (the first revision has no markdown file in any directory).
TreeDocs(fp, r) == [ j \in 1..(r - 1) |-> RawDocument(fp, << >>) ]

\* VectorStoreIndex.from_documents(d): an index over exactly the documents d.
from_documents(d) ==
  [ origin |-> "built", path |-> d.path, rev |-> d.rev,
    size |-> Len(d.documents) ]

\* What index.storage_context.persist leaves in the directory.
Snapshot(ix) ==
  [ kind |-> "snapshot", path |-> ix.path, rev |-> ix.rev, size |-> ix.size ]

\* Whether load_index_from_storage accepts what a directory holds.
Loadable(s) == s.kind = "snapshot"

\* load_index_from_storage on a directory holding the snapshot s.
load_index_from_storage(s) ==
  [ origin |-> "loaded", path |-> s.path, rev |-> s.rev, size |-> s.size ]

\* What StorageContext.from_defaults / load_index_from_storage raises on a
\* directory that is missing, or whose files do not parse.
LoadError(s) ==
  IF s.kind = "absent"
  THEN [ type |-> "FileNotFoundError", op |-> "load_index_from_storage" ]
  ELSE [ type |-> "ValueError", op |-> "load_index_from_storage" ]

\* index.as_query_engine()
as_query_engine(ix) == [ index |-> ix ]

(***************************************************************************)
(* load_markdown_docs and load_docs.                                       *)
(***************************************************************************)
\* The loop of load_markdown_docs leaving the first document as it came.
load_markdown_docs_skip_first(fp, out) ==
  [ j \in 1..Len(out) |->
      IF j = 1 THEN out[j]
      ELSE [ out[j] EXCEPT !.excluded_llm_metadata_keys = ExcludedKeys ] ]

\* load_markdown_docs(filepath), given what loader.load_data() returns.
load_markdown_docs(fp, out) ==
  [ j \in 1..Len(out) |->
      [ out[j] EXCEPT !.excluded_llm_metadata_keys = ExcludedKeys ] ]

\* The element of load_docs()'s tuple that create_query_engine binds to
\* <c>_docs, with the tree at revision r.
load_docs(c, r) ==
  [ path |-> SourcePath[c], rev |-> r,
    documents |-> load_markdown_docs(SourcePath[c], TreeDocs(SourcePath[c], r)) ]

(***************************************************************************)
(* create_query_engine.                                                    *)
(***************************************************************************)
\* An except clause that only takes a missing directory for a cache miss.
CaughtOnlyMissing(e) == e.type = "FileNotFoundError"

\* except Exception: every error of the try block is caught.
Caught(e) == TRUE

\* A fallback that rebuilds from the category whose load failed onward.
RebuildFromFailed(k) == k

\* The except block starts over at the first category, whichever load failed.
RebuildFrom(k) == 1

\* A try block followed by the builds unconditionally.
TryCompletedRebuilds == "build"

\* The try block completes without an exception: the except block is
\* skipped and the tools are made.
TryCompleted == "tools"

\* A handler that logs a failed build and goes on.
UnwindSwallowsBuild(op) == IF op = "build" THEN "persist" ELSE "raised"

\* Where an exception of load_docs, from_documents or persist takes
\* create_query_engine: no handler encloses these calls, so out of it.
Unwind(op) == "raised"

\* An except clause that would wrap the library's error in a named one.
PropagateWrapped(e, c) ==
  [ type |-> "IndexBuildError", op |-> e.op, category |-> c ]

\* The exception leaves create_query_engine as the library raised it.
Propagate(e, c) == e

Idle == pc = "idle"

Raise(op, c, e) ==
  /\ pc' = Unwind(op)
  /\ raised' = IF Unwind(op) = "raised" THEN Propagate(e, c) ELSE raised
  /\ failure' = [ op |-> op, cat |-> c, exc |-> e ]

\* A call of create_query_engine begins.
StartRun ==
  /\ Idle
  /\ runs < MaxRuns
  /\ runs' = runs + 1
  /\ pc' = "load_docs"
  /\ cur' = 1
  /\ reuse' = fresh
  /\ disk0' = disk
  /\ UNCHANGED << disk, rev, docs, index, engine, raised, failure, loadOk,
                  loadFailed, built, written, fresh, tampers >>
  /\ UNCHANGED loaderVars

\* load_docs() returns: each of its nine load_markdown_docs calls returned.
LoadDocsOk ==
  /\ pc = "load_docs"
  /\ docs' = [ c \in Cat |-> load_docs(c, rev) ]
  /\ pc' = "try"
  /\ cur' = 1
  /\ UNCHANGED << disk, disk0, rev, index, engine, raised, failure, loadOk,
                  loadFailed, built, written, fresh, reuse, runs, tampers >>
  /\ UNCHANGED loaderVars

\* load_docs() raises: one of its load_markdown_docs calls raised (its
\* directory is missing), and nothing is bound in create_query_engine.
LoadDocsRaises ==
  /\ pc = "load_docs"
  /\ \E c \in Cat, e \in Thrown("load_data") : Raise("load_docs", c, e)
  /\ UNCHANGED << disk, disk0, rev, cur, docs, index, engine, loadOk,
                  loadFailed, built, written, fresh, reuse, runs, tampers >>
  /\ UNCHANGED loaderVars

\* The try block: one load_index_from_storage call returns.
LoadIndexOk ==
  /\ pc = "try"
  /\ LET c == Categories[cur] IN
       /\ Loadable(disk[LoadDir[c]])
       /\ index' = [ index EXCEPT ![c] = load_index_from_storage(disk[LoadDir[c]]) ]
       /\ loadOk' = loadOk \cup { c }
  /\ IF cur = N THEN pc' = TryCompleted /\ cur' = 1
                ELSE pc' = pc /\ cur' = cur + 1
  /\ UNCHANGED << disk, disk0, rev, docs, engine, raised, failure,
                  loadFailed, built, written, fresh, reuse, runs, tampers >>
  /\ UNCHANGED loaderVars

\* The try block: one load raises; except Exception catches it and the
\* rebuild of the nine indexes begins.
LoadIndexRaises ==
  /\ pc = "try"
  /\ LET c == Categories[cur]
         e == LoadError(disk[LoadDir[c]])
     IN
       /\ ~ Loadable(disk[LoadDir[c]])
       /\ loadFailed' = loadFailed \cup { c }
       /\ failure' = [ op |-> "load", cat |-> c, exc |-> e ]
       /\ IF Caught(e)
          THEN pc' = "build" /\ cur' = RebuildFrom(cur) /\ raised' = raised
          ELSE pc' = "raised" /\ cur' = cur /\ raised' = e
  /\ UNCHANGED << disk, disk0, rev, docs, index, engine, loadOk, built,
                  written, fresh, reuse, runs, tampers >>
  /\ UNCHANGED loaderVars

\* The except block: VectorStoreIndex.from_documents returns.
BuildOk ==
  /\ pc = "build"
  /\ LET c == Categories[cur] IN
       /\ index' = [ index EXCEPT ![c] = from_documents(docs[BuildDocs[c]]) ]
       /\ built' = built \cup { c }
  /\ pc' = "persist"
  /\ UNCHANGED << disk, disk0, rev, cur, docs, engine, raised, failure,
                  loadOk, loadFailed, written, fresh, reuse, runs, tampers >>
  /\ UNCHANGED loaderVars

\* The except block: VectorStoreIndex.from_documents raises.
BuildRaises ==
  /\ pc = "build"
  /\ \E e \in Thrown("from_documents") : Raise("build", Categories[cur], e)
  /\ UNCHANGED << disk, disk0, rev, cur, docs, index, engine, loadOk,
                  loadFailed, built, written, fresh, reuse, runs, tampers >>
  /\ UNCHANGED loaderVars

\* The except block: storage_context.persist returns.
PersistOk ==
  /\ pc = "persist"
  /\ LET c == Categories[cur] IN
       /\ disk' = [ disk EXCEPT ![PersistDir[c]] = Snapshot(index[c]) ]
       /\ written' = written \cup { c }
  /\ IF cur = N THEN pc' = "tools" /\ cur' = 1
                ELSE pc' = "build" /\ cur' = cur + 1
  /\ UNCHANGED << disk0, rev, docs, index, engine, raised, failure, loadOk,
                  loadFailed, built, fresh, reuse, runs, tampers >>
  /\ UNCHANGED loaderVars

\* The except block: storage_context.persist raises, leaving the directory
\* as it was or with a partial write.
PersistRaises ==
  /\ pc = "persist"
  /\ \E e \in Thrown("persist") : Raise("persist", Categories[cur], e)
  /\ \E s \in { disk[PersistDir[Categories[cur]]], Corrupt } :
       disk' = [ disk EXCEPT ![PersistDir[Categories[cur]]] = s ]
  /\ fresh' = FALSE
  /\ UNCHANGED << disk0, rev, cur, docs, index, engine, loadOk, loadFailed,
                  built, written, reuse, runs, tampers >>
  /\ UNCHANGED loaderVars

\* QueryEngineTool.from_defaults for <t>_tool.
QueryEngineTool(t) ==
  [ name |-> ToolName[t], query_engine |-> as_query_engine(index[ToolIndex[t]]) ]

\* The nine tools, the SubQuestionQueryEngine over them, and the return.
MakeEngine ==
  /\ pc = "tools"
  /\ engine' = [ tools |-> [ n \in 1..Len(QueryEngineTools) |->
                               QueryEngineTool(QueryEngineTools[n]) ],
                 streaming |-> TRUE ]
  /\ pc' = "returned"
  /\ fresh' = TRUE
  /\ UNCHANGED << disk, disk0, rev, cur, docs, index, raised, failure,
                  loadOk, loadFailed, built, written, reuse, runs, tampers >>
  /\ UNCHANGED loaderVars

\* The caller is done with the result (the engine or the exception) and the
\* process ends: the locals of create_query_engine are gone.
Exit ==
  /\ pc \in { "returned", "raised" }
  /\ pc' = "idle"
  /\ cur' = 1
  /\ docs' = [ c \in Cat |-> NoDocs ]
  /\ index' = [ c \in Cat |-> NoIndex ]
  /\ engine' = NoEngine
  /\ raised' = NoError
  /\ failure' = NoFailure
  /\ loadOk' = {}
  /\ loadFailed' = {}
  /\ built' = {}
  /\ written' = {}
  /\ reuse' = FALSE
  /\ disk0' = NoDisk
  /\ UNCHANGED << disk, rev, fresh, runs, tampers >>
  /\ UNCHANGED loaderVars

(***************************************************************************)
(* The environment between two calls.                                      *)
(***************************************************************************)
\* After a call that returned, one of the nine directories is removed, or
\* its snapshot damaged.
Tamper ==
  /\ Idle
  /\ fresh
  /\ tampers < MaxTamper
  /\ \E d \in Dirs, s \in { Absent, Corrupt } :
       disk' = [ disk EXCEPT ![d] = s ]
  /\ tampers' = tampers + 1
  /\ fresh' = FALSE
  /\ UNCHANGED << disk0, rev, pc, cur, docs, index, engine, raised, failure,
                  loadOk, loadFailed, built, written, reuse, runs >>
  /\ UNCHANGED loaderVars

\* The documentation under ../docs is edited.
EditDocs ==
  /\ Idle
  /\ rev < MaxRev
  /\ rev' = rev + 1
  /\ UNCHANGED << disk, disk0, pc, cur, docs, index, engine, raised, failure,
                  loadOk, loadFailed, built, written, fresh, reuse, runs,
                  tampers >>
  /\ UNCHANGED loaderVars

(***************************************************************************)
(* Specifications.                                                         *)
(***************************************************************************)
MainInit ==
  /\ disk = NoDisk
  /\ disk0 = NoDisk
  /\ rev = 1
  /\ pc = "idle"
  /\ cur = 1
  /\ docs = [ c \in Cat |-> NoDocs ]
  /\ index = [ c \in Cat |-> NoIndex ]
  /\ engine = NoEngine
  /\ raised = NoError
  /\ failure = NoFailure
  /\ loadOk = {}
  /\ loadFailed = {}
  /\ built = {}
  /\ written = {}
  /\ fresh = FALSE
  /\ reuse = FALSE
  /\ runs = 0
  /\ tampers = 0

LoaderIdle ==
  /\ filepath = ""
  /\ emitted = << >>
  /\ documents = << >>
  /\ lpc = "idle"

Init == MainInit /\ LoaderIdle

Next ==
  \/ StartRun
  \/ LoadDocsOk
  \/ LoadDocsRaises
  \/ LoadIndexOk
  \/ LoadIndexRaises
  \/ BuildOk
  \/ BuildRaises
  \/ PersistOk
  \/ PersistRaises
  \/ MakeEngine
  \/ Exit
  \/ Tamper
  \/ EditDocs

Spec == Init /\ [][Next]_vars

\* load_markdown_docs alone, on every directory and every reader output of
\* at most MaxDocs documents.
RawSeqs == UNION { [ 1..n -> RawExcluded ] : n \in 0..MaxDocs }

LoaderInit ==
  /\ filepath \in { SourcePath[c] : c \in Cat }
  /\ emitted \in { [ j \in 1..Len(q) |-> RawDocument(filepath, q[j]) ] : q \in RawSeqs }
  /\ documents = << >>
  /\ lpc = "called"

CallLoadMarkdownDocs ==
  /\ lpc = "called"
  /\ documents' = load_markdown_docs(filepath, emitted)
  /\ lpc' = "returned"
  /\ UNCHANGED << filepath, emitted >>
  /\ UNCHANGED mainVars

LoaderStart == MainInit /\ LoaderInit

LoaderSpec == LoaderStart /\ [][CallLoadMarkdownDocs]_vars

(***************************************************************************)
(* Properties.                                                             *)
(***************************************************************************)
Prefix(k) == { Categories[n] : n \in 1..k }

ToolNamesOf(e) == [ n \in 1..Len(e.tools) |-> e.tools[n].name ]

\* An error that names the category it is about, not a library's own error.
IdentifiesCategory(e, c) ==
  /\ "category" \in DOMAIN e
  /\ e.category = c
  /\ e.type \notin { "ValueError", "RuntimeError", "OSError", "FileNotFoundError" }

\* C1. Fallback correctness: whatever subset of the nine directories is
\* absent or unloadable when the call starts, a failed load never leaves
\* create_query_engine (only load_docs, from_documents and persist can make it
\* raise), the fallback can always go on, and when an engine is returned after
\* a failed load it has the nine tools and each of the nine directories holds
\* a snapshot that load_index_from_storage accepts.
C1_FallbackCorrectness ==
  /\ pc = "raised" => failure.op \in { "load_docs", "build", "persist" }
  /\ loadFailed # {} /\ pc # "raised" => pc \in { "build", "persist", "tools", "returned" }
  /\ pc = "build" => ENABLED BuildOk
  /\ pc = "persist" => ENABLED PersistOk
  /\ pc = "tools" => ENABLED MakeEngine
  /\ pc = "returned" =>
       /\ Len(engine.tools) = N
       /\ \A c \in Cat : Loadable(disk[LoadDir[c]])

\* C1 witness: an engine returned by a call that found some snapshots
\* loadable and an unreadable one, and rebuilt and persisted all nine.
C1_Witness ==
  /\ pc = "returned"
  /\ loadOk # {}
  /\ \E c \in loadFailed : disk0[LoadDir[c]] = Corrupt
  /\ written = Cat

\* C2. The load-or-rebuild decision is made per category: a category whose
\* own snapshot loaded in this call is not built, its directory is not
\* written and holds what it held when the call started, and a returned
\* engine uses its index as loaded, whatever happens to the other eight.
\* The shared try block breaks it: one failed load rebuilds and overwrites
\* the categories that had loaded.
C2_PerCategoryDecision ==
  \A c \in loadOk :
    /\ c \notin built
    /\ c \notin written
    /\ disk[LoadDir[c]] = disk0[LoadDir[c]]
    /\ pc = "returned" => index[c].origin = "loaded"

\* C3. Reuse after success: a call that starts after a call has returned,
\* with no directory changed since, never enters the except block: it builds
\* nothing, writes nothing, and if it returns it loaded all nine.
C3_ReuseAfterSuccess ==
  reuse =>
    /\ pc \notin { "build", "persist" }
    /\ loadFailed = {}
    /\ built = {}
    /\ written = {}
    /\ disk = disk0
    /\ pc = "returned" => loadOk = Cat /\ \A c \in Cat : index[c].origin = "loaded"

\* C3 witness: the third call returns on the reuse path.
C3_Witness ==
  /\ reuse
  /\ pc = "returned"
  /\ runs >= 3
  /\ tampers = 0

\* C4. Order stability: the tools of a returned engine are the nine category
\* tools in declaration order, whether the indexes were loaded or rebuilt.
C4_OrderStability ==
  pc = "returned" =>
    ToolNamesOf(engine) =
      << "Getting Started", "Community", "Data Modules", "Agent Modules",
         "Model Modules", "Query Modules", "Supporting Modules", "Tutorials",
         "Contributing" >>

\* C4 witness: an engine over loaded indexes, returned by a call that
\* follows one that rebuilt them.
C4_Witness ==
  /\ pc = "returned"
  /\ loadOk = Cat
  /\ Len(engine.tools) = N
  /\ rev = 1

\* C5. All-or-nothing startup: a failure of load_docs, from_documents or
\* persist leaves create_query_engine as an exception and no engine is
\* returned; an engine exists only after a return and has all nine tools.
C5_AllOrNothing ==
  /\ failure.op \in { "load_docs", "build", "persist" } =>
       /\ pc = "raised"
       /\ raised # NoError
       /\ engine = NoEngine
  /\ engine # NoEngine =>
       /\ pc = "returned"
       /\ raised = NoError
       /\ Len(engine.tools) = N
       /\ \A n \in 1..N : engine.tools[n].query_engine.index.origin # "unset"
  /\ pc = "returned" => engine # NoEngine

\* C5 witness: persist fails half way through the rebuild.
C5_Witness ==
  /\ pc = "raised"
  /\ failure.op = "persist"
  /\ Cardinality(written) = 4

\* C6. Metadata exclusion: every document load_markdown_docs returns, for
\* every directory and any number of documents, has exactly the three keys
\* as its exclusion list, and no document is added or dropped.
C6_MetadataExclusion ==
  lpc = "returned" =>
    /\ Len(documents) = Len(emitted)
    /\ \A j \in 1..Len(documents) :
         /\ documents[j].excluded_llm_metadata_keys =
              << "File Name", "Content Type", "Header Path" >>
         /\ documents[j].file = emitted[j].file

\* C6 witness: documents that came with other exclusion lists.
C6_Witness ==
  /\ lpc = "returned"
  /\ Len(documents) >= 2
  /\ emitted[1].excluded_llm_metadata_keys = << "Header Path", "Links" >>
  /\ emitted[2].excluded_llm_metadata_keys = << >>

\* C7. One-to-one wiring: no two categories share a directory, each is
\* persisted to the directory it is loaded from, every snapshot in a
\* category's directory and every index held for the category is over the
\* documents of the category's own source path and revision read, and each
\* tool of a returned engine carries its category's name and index.
C7_OneToOneWiring ==
  /\ \A c1, c2 \in Cat : c1 # c2 => LoadDir[c1] # LoadDir[c2]
  /\ \A c \in Cat :
       /\ PersistDir[c] = LoadDir[c]
       /\ Loadable(disk[LoadDir[c]]) => disk[LoadDir[c]].path = SourcePath[c]
       /\ index[c].origin # "unset" => index[c].path = SourcePath[c]
       /\ index[c].origin = "loaded" => Snapshot(index[c]) = disk0[LoadDir[c]]
       /\ index[c].origin = "built" => index[c] = from_documents(docs[c])
       /\ docs[c] # NoDocs => docs[c].path = SourcePath[c]
  /\ pc = "returned" =>
       \A n \in 1..Len(engine.tools) :
         /\ engine.tools[n].name = ToolName[Categories[n]]
         /\ engine.tools[n].query_engine.index = index[Categories[n]]

\* C7 witness: an engine over nine indexes rebuilt from edited documents.
C7_Witness ==
  /\ pc = "returned"
  /\ built = Cat
  /\ rev = 2
  /\ \A c \in Cat : index[c].size = 1

\* C8 as stated: a failed build reaches the caller as a named error that
\* identifies the failing category.
C8_NamedBuildError ==
  pc = "raised" /\ failure.op = "build" =>
    IdentifiesCategory(raised, failure.cat)

\* C8 amended. A failed build reaches the caller as the very exception
\* from_documents raised, unchanged: a library error that does not identify
\* the category.
C8_BuildErrorUnchanged ==
  pc = "raised" /\ failure.op = "build" =>
    /\ raised = failure.exc
    /\ raised \in Thrown("from_documents")
    /\ ~ IdentifiesCategory(raised, failure.cat)

\* C8 witness: the build of the third category fails.
C8_Witness ==
  /\ pc = "raised"
  /\ failure.op = "build"
  /\ failure.cat = "data"
  /\ raised.type = "RuntimeError"

\* C9. A returned engine is over nine loaded indexes or over nine indexes
\* rebuilt from the documents read in this call, never a mix; and a rebuild
\* goes in declaration order, each category persisted before the next is
\* built.
C9_AllLoadedOrAllRebuilt ==
  /\ pc = "returned" =>
       \/ \A c \in Cat : index[c].origin = "loaded"
       \/ \A c \in Cat : index[c] = from_documents(load_docs(c, rev))
  /\ built = Prefix(Cardinality(built))
  /\ written = Prefix(Cardinality(written))
  /\ pc = "build" => built = written /\ cur = Cardinality(built) + 1
  /\ pc = "persist" => built = written \cup { Categories[cur] } /\ cur = Cardinality(built)
  /\ pc \in { "tools", "returned" } => built = written

\* C9 witness: the rebuild stands between building and persisting the fifth
\* category, the first four persisted, in a call where some loads succeeded.
C9_Witness ==
  /\ pc = "persist"
  /\ cur = 5
  /\ Cardinality(written) = 4
  /\ Cardinality(loadOk) = 6

\* C10. When all nine snapshots load, the result is a function of the
\* directories alone: each index is what its directory held when the call
\* started, whatever revision of the documents was read, and the directories
\* are as they were.
C10_DocsWithoutInfluence ==
  pc = "returned" /\ loadFailed = {} =>
    /\ disk = disk0
    /\ \A c \in Cat : index[c] = load_index_from_storage(disk0[LoadDir[c]])
    /\ \A n \in 1..Len(engine.tools) :
         engine.tools[n].query_engine.index =
           load_index_from_storage(disk0[LoadDir[Categories[n]]])

\* C10 witness: edited documents were read, and the engine returned is over
\* the snapshots of the old revision.
C10_Witness ==
  /\ pc = "returned"
  /\ loadFailed = {}
  /\ \A c \in Cat : docs[c].rev = 2 /\ index[c].rev = 1

=============================================================================
